---- MODULE Spec2Model ----
(***************************************************************************)
(* A model of dex_trader/dex/odos_dex.py: the OdosDex backend.             *)
(*                                                                         *)
(* Callers (Tasks) are coroutines on one event loop that invoke the        *)
(* operations of one OdosDex instance.  A step of the model is the code    *)
(* that runs between two suspension points (await) of a coroutine: sending *)
(* an HTTP request, and handling the response when it arrives.  The remote *)
(* services, the signer and the network client are the environment: their  *)
(* answers are chosen nondeterministically from small sets.                *)
(*                                                                         *)
(* Python values are tagged records, exceptions are chains of layers (an   *)
(* exception raised inside an except block keeps the one it replaces as    *)
(* its __context__), and message strings are sequences of tokens, so that  *)
(* f-string interpolation is concatenation.                                *)
(***************************************************************************)
EXTENDS Integers, Sequences, FiniteSets, TLC

\* The number of invocations started in one run.
MaxOps == 3

\* The coroutines that call the backend concurrently.
Tasks == {"t1", "t2"}

-----------------------------------------------------------------------------
(* Python values *)

None == [tag |-> "None"]
PyBool(b) == [tag |-> "bool", val |-> b]
PyInt(n) == [tag |-> "int", val |-> n]
\* A str is a sequence of one-character strings.
PyStr(chars) == [tag |-> "str", val |-> chars]
\* A dict is a function from its keys to its values.
PyDict(items) == [tag |-> "dict", items |-> items]
\* bytes; prefixed tells whether the object's hex() puts "0x" in front, as
\* HexBytes before 1.0 does, or not, as bytes.hex() does.
PyBytes(octets, prefixed) == [tag |-> "bytes", val |-> octets, prefixed |-> prefixed]

EmptyDict == [k \in {} |-> None]

\* Only None counts as missing.
TruthyIsNotNone(v) == v.tag # "None"

\* bool(v), as `not v` uses it
Truthy(v) ==
    CASE v.tag = "None" -> FALSE
      [] v.tag = "bool" -> v.val
      [] v.tag = "int" -> v.val # 0
      [] v.tag = "str" -> Len(v.val) > 0
      [] v.tag = "bytes" -> Len(v.val) > 0
      [] v.tag = "dict" -> DOMAIN v.items # {}

\* dict.get(key, default) on the items of a dict
Get(items, key, default) == IF key \in DOMAIN items THEN items[key] ELSE default

-----------------------------------------------------------------------------
(* Exceptions and results *)

\* A token of a message: literal text, or the repr of an interpolated value.
Lit(s) == [lit |-> s]
Repr(v) == [repr |-> v]

\* One exception object: its class and the tokens of str(e).
Exc(type, msg) == [type |-> type, msg |-> msg]

WrapDropsCause(prefix, chain) == <<Exc("Exception", <<Lit(prefix)>>)>>

\* raise Exception(f"{prefix}{str(e)}") inside `except Exception as e`: the new
\* exception is put in front of the chain it was raised while handling.
Wrap(prefix, chain) ==
    <<Exc("Exception", <<Lit(prefix)>> \o Head(chain).msg)>> \o chain

\* KeyError(key): str() of a KeyError is the repr of the key.
KeyError(key) == <<Exc("KeyError", <<Repr(key)>>)>>

\* What a call does: it returns a value or raises an exception chain.
Returns(v) == [ok |-> TRUE, val |-> v]
Raises(chain) == [ok |-> FALSE, exc |-> chain]

NoExc == << >>
NoValue == [tag |-> "unset"]

-----------------------------------------------------------------------------
(* The inputs the callers choose and the answers the environment gives *)

\* QuoteRequests: with a user address, without one, empty, and None.
QuoteParams ==
    { PyDict([chainId |-> PyInt(1), userAddr |-> PyStr(<<"0", "x", "A">>)]),
      PyDict([chainId |-> PyInt(1), userAddr |-> PyStr(<<"0", "x", "B">>)]),
      PyDict([chainId |-> PyInt(1)]),
      PyDict(EmptyDict),
      None }

SimulateFlags == { PyBool(TRUE), PyBool(FALSE) }

\* Orders: every choice of 'quote_params' and 'simulate', each present or not.
Orders ==
    { EmptyDict }
    \cup { [simulate |-> s] : s \in SimulateFlags }
    \cup { [quote_params |-> q] : q \in QuoteParams }
    \cup { [quote_params |-> q, simulate |-> s] : q \in QuoteParams, s \in SimulateFlags }

\* Parsed JSON bodies of the quoting endpoint.
QuoteBodies ==
    { [pathId |-> "p1", gasEstimate |-> 100],
      [pathId |-> "p2", gasEstimate |-> 100],
      [detail |-> "quote failed", errorCode |-> 2000] }

\* Parsed JSON bodies of the assembly endpoint.
AssemblyBodies ==
    { [to |-> "0xDEF", value |-> "0", data |-> "0x01"],
      [to |-> "0xDEF", value |-> "1000", data |-> "0x02"],
      [detail |-> "assembly failed", errorCode |-> 4000] }

Statuses == {200, 400}

\* What comes back for one HTTP request: the transport fails (timeout,
\* connection refused), or a response arrives with a status and a body that
\* response.json() can parse or not.
TransportFailure == [kind |-> "transport"]
HttpResponse(status, json_ok, body) ==
    [kind |-> "http", status |-> status, json_ok |-> json_ok, body |-> body]
Responses(bodies) ==
    { TransportFailure }
    \cup { HttpResponse(st, TRUE, b) : st \in Statuses, b \in bodies }
    \cup { HttpResponse(st, FALSE, EmptyDict) : st \in Statuses }

\* The 'value' fields of the transactions handed to submit_to_chain.
Values ==
    { PyStr(<<"1", "0", "0", "0">>), PyStr(<<"0">>), PyStr(<<"0", "0", "7">>),
      PyStr(<<" ", "1", "2", " ">>), PyStr(<<"-", "5">>), PyStr(<<"+", "7">>),
      PyStr(<<"1", "_", "0">>), PyStr(<<"0", "x", "1", "0">>), PyStr(<<"1", "2", "a">>),
      PyStr(<<"1", "_", "_", "0">>), PyStr(<< >>), PyInt(1000), None }

Transactions ==
    { [to |-> PyStr(<<"0", "x", "D">>), data |-> PyStr(<<"0", "x">>)] }
    \cup { [to |-> PyStr(<<"0", "x", "D">>), data |-> PyStr(<<"0", "x">>), value |-> v] :
             v \in Values }

PrivateKeys == {"k1", "k2"}

\* What send_raw_transaction hands back: bytes (HexBytes of either kind) or str.
TxHashes ==
    { PyBytes(<<171, 205>>, FALSE), PyBytes(<<171, 205>>, TRUE), PyBytes(<<10, 0>>, FALSE),
      PyStr(<<"0", "x", "a", "b", "c", "d">>), PyStr(<<"0", "x", "A", "B", "C", "D">>),
      PyStr(<<"a", "b", "c", "d">>) }

OrderIds == {"", "o1", "p1"}

QuoteUrl == "https://api.odos.xyz/sor/quote/v2"
AssembleUrl == "https://api.odos.xyz/sor/assemble"

-----------------------------------------------------------------------------
(* get_quote and assemble_transaction: what the body of each does with the  *)
(* answer to its request                                                    *)

\* async with session.post(...) as response, and response.json(): what the
\* transport and the decoder raise.
ClientError == <<Exc("ClientError", <<Lit("Cannot connect to host")>>)>>
DecodeError == <<Exc("ContentTypeError", <<Lit("Attempt to decode JSON with unexpected mimetype")>>)>>

GetQuoteResultIgnoresStatus(resp) ==
    IF resp.kind = "transport" THEN Raises(Wrap("Exception in get_quote: ", ClientError))
    ELSE IF ~resp.json_ok THEN Raises(Wrap("Exception in get_quote: ", DecodeError))
    ELSE Returns(resp.body)

GetQuoteResult(resp) ==
    IF resp.kind = "transport" THEN Raises(Wrap("Exception in get_quote: ", ClientError))
    ELSE IF ~resp.json_ok THEN Raises(Wrap("Exception in get_quote: ", DecodeError))
    ELSE IF resp.status = 200 THEN Returns(resp.body)
    ELSE Raises(Wrap("Exception in get_quote: ",
                     <<Exc("Exception", <<Lit("Error in Quote: "), Repr(resp.body)>>)>>))

AssemblePayloadLowersAddress(user_addr, path_id, simulate) ==
    [userAddr |-> PyStr([i \in 1..Len(user_addr.val) |->
                            IF user_addr.val[i] = "A" THEN "a"
                            ELSE IF user_addr.val[i] = "B" THEN "b"
                            ELSE user_addr.val[i]]),
     pathId |-> path_id, simulate |-> simulate]

\* Line 66: the body of the assembly request
AssemblePayload(user_addr, path_id, simulate) ==
    [userAddr |-> user_addr, pathId |-> path_id, simulate |-> simulate]

AssembleResultIgnoresStatus(resp) ==
    IF resp.kind = "transport" THEN Raises(Wrap("Exception in assemble_transaction: ", ClientError))
    ELSE IF ~resp.json_ok THEN Raises(Wrap("Exception in assemble_transaction: ", DecodeError))
    ELSE Returns(resp.body)

AssembleResult(resp) ==
    IF resp.kind = "transport" THEN Raises(Wrap("Exception in assemble_transaction: ", ClientError))
    ELSE IF ~resp.json_ok THEN Raises(Wrap("Exception in assemble_transaction: ", DecodeError))
    ELSE IF resp.status = 200 THEN Returns(resp.body)
    ELSE Raises(Wrap("Exception in assemble_transaction: ",
                     <<Exc("Exception", <<Lit("Error in Transaction Assembly: "), Repr(resp.body)>>)>>))

-----------------------------------------------------------------------------
(* int(x) and bytes.hex(), as submit_to_chain uses them *)

Digits == <<"0", "1", "2", "3", "4", "5", "6", "7", "8", "9">>
HexDigits == Digits \o <<"a", "b", "c", "d", "e", "f">>

IsDigit(c) == \E i \in 1..Len(Digits) : Digits[i] = c
DigitValue(c) == (CHOOSE i \in 1..Len(Digits) : Digits[i] = c) - 1
IsSpace(c) == c = " "

RECURSIVE LStrip(_)
LStrip(s) == IF s # << >> /\ IsSpace(Head(s)) THEN LStrip(Tail(s)) ELSE s

RECURSIVE RStrip(_)
RStrip(s) ==
    IF s # << >> /\ IsSpace(s[Len(s)]) THEN RStrip(SubSeq(s, 1, Len(s) - 1)) ELSE s

\* The digit part of a decimal literal: digits, with single underscores
\* between digits.
IsDigitPart(s) ==
    /\ s # << >>
    /\ \A i \in 1..Len(s) : IsDigit(s[i]) \/ s[i] = "_"
    /\ \A i \in 1..Len(s) :
           s[i] = "_" => i > 1 /\ i < Len(s) /\ IsDigit(s[i - 1]) /\ IsDigit(s[i + 1])

RECURSIVE Accumulate(_, _)
Accumulate(s, acc) ==
    IF s = << >> THEN acc
    ELSE IF Head(s) = "_" THEN Accumulate(Tail(s), acc)
    ELSE Accumulate(Tail(s), acc * 10 + DigitValue(Head(s)))

InvalidLiteral(v) ==
    <<Exc("ValueError", <<Lit("invalid literal for int() with base 10: "), Repr(v)>>)>>
NotANumber(v) ==
    <<Exc("TypeError", <<Lit("int() argument must be a string, a bytes-like object or a real number, not "),
                         Lit(v.tag)>>)>>

\* int(v): base 10, surrounding whitespace stripped, an optional sign.
IntOf(v) ==
    CASE v.tag = "int" -> Returns(PyInt(v.val))
      [] v.tag = "bool" -> Returns(PyInt(IF v.val THEN 1 ELSE 0))
      [] v.tag = "str" ->
            LET body == RStrip(LStrip(v.val))
                signed == body # << >> /\ Head(body) \in {"+", "-"}
                digits == IF signed THEN Tail(body) ELSE body
                sign == IF signed /\ Head(body) = "-" THEN -1 ELSE 1
            IN  IF IsDigitPart(digits)
                THEN Returns(PyInt(sign * Accumulate(digits, 0)))
                ELSE Raises(InvalidLiteral(v))
      [] OTHER -> Raises(NotANumber(v))

RECURSIVE HexOf(_)
HexOf(octets) ==
    IF octets = << >> THEN << >>
    ELSE <<HexDigits[(Head(octets) \div 16) + 1], HexDigits[(Head(octets) % 16) + 1]>>
         \o HexOf(Tail(octets))

\* tx_hash.hex()
Hex(b) == (IF b.prefixed THEN <<"0", "x">> ELSE << >>) \o HexOf(b.val)

HashStringUnconverted(tx_hash) == tx_hash

\* Line 140: tx_hash.hex() if isinstance(tx_hash, bytes) else tx_hash
HashString(tx_hash) ==
    IF tx_hash.tag = "bytes" THEN PyStr(Hex(tx_hash)) ELSE tx_hash

-----------------------------------------------------------------------------
(* The state *)

VARIABLES
    op,        \* op[t]: the operation task t has invoked, "none" between invocations
    pc,        \* pc[t]: where the invocation stands
    args,      \* args[t]: the arguments, the very objects the caller passed
    given,     \* given[t]: a copy of the arguments taken at the call
    quote,     \* quote[t]: place_order's local variable quote
    ret,       \* ret[t]: the value the invocation returned
    exc,       \* exc[t]: the exception chain the invocation raised
    sent,      \* sent[t]: the HTTP requests the invocation has issued, in order
    recv,      \* recv[t]: the answers to them, in order
    sessions,  \* sessions[t]: the aiohttp sessions the invocation holds open
    w3calls,   \* w3calls[t]: the calls the invocation has made on w3, in order
    w3rets,    \* w3rets[t]: what they returned or raised, in order
    handed,    \* whether place_order has handed an assembled transaction to a caller yet
    started    \* the number of invocations started so far

vars ==
    <<op, pc, args, given, quote, ret, exc, sent, recv, sessions, w3calls, w3rets, handed, started>>

Request(url, json) == [url |-> url, json |-> json]

Init ==
    /\ op = [t \in Tasks |-> "none"]
    /\ pc = [t \in Tasks |-> "idle"]
    /\ args = [t \in Tasks |-> EmptyDict]
    /\ given = [t \in Tasks |-> EmptyDict]
    /\ quote = [t \in Tasks |-> NoValue]
    /\ ret = [t \in Tasks |-> NoValue]
    /\ exc = [t \in Tasks |-> NoExc]
    /\ sent = [t \in Tasks |-> << >>]
    /\ recv = [t \in Tasks |-> << >>]
    /\ sessions = [t \in Tasks |-> 0]
    /\ w3calls = [t \in Tasks |-> << >>]
    /\ w3rets = [t \in Tasks |-> << >>]
    /\ handed = FALSE
    /\ started = 0

\* The order is completed in place with the default of 'simulate'.
CallSetsDefault(t, o, a) ==
    /\ pc[t] = "idle"
    /\ started < MaxOps
    /\ started' = started + 1
    /\ op' = [op EXCEPT ![t] = o]
    /\ args' = [args EXCEPT ![t] =
                   IF o = "place_order"
                   THEN [order |-> [k \in DOMAIN a.order \cup {"simulate"} |->
                                       IF k \in DOMAIN a.order THEN a.order[k]
                                       ELSE PyBool(FALSE)]]
                   ELSE a]
    /\ given' = [given EXCEPT ![t] = a]

\* Task t calls operation o with arguments a.
Call(t, o, a) ==
    /\ pc[t] = "idle"
    /\ started < MaxOps
    /\ started' = started + 1
    /\ op' = [op EXCEPT ![t] = o]
    /\ args' = [args EXCEPT ![t] = a]
    /\ given' = [given EXCEPT ![t] = a]

\* The invocation of t ends: it returns v.
Return(t, v) ==
    /\ pc' = [pc EXCEPT ![t] = "returned"]
    /\ ret' = [ret EXCEPT ![t] = v]
    /\ exc' = exc

\* The invocation of t ends: it raises the chain e.
Raise(t, e) ==
    /\ pc' = [pc EXCEPT ![t] = "raised"]
    /\ exc' = [exc EXCEPT ![t] = e]
    /\ ret' = ret

\* A key that a submit beside it or before it was given travels with the request.
PostCarriesKey(t, url, json, where) ==
    LET signers == {u \in Tasks : "private_key" \in DOMAIN args[u]}
        key == IF signers # {} THEN args[CHOOSE u \in signers : TRUE].private_key ELSE ""
    IN /\ sessions' = [sessions EXCEPT ![t] = @ + 1]
       /\ sent' = [sent EXCEPT ![t] = Append(@, [url |-> url, json |-> json, key |-> key])]
       /\ pc' = [pc EXCEPT ![t] = where]

\* async with aiohttp.ClientSession() as session: session.post(url, json=...):
\* a session is opened and the request issued; the coroutine is suspended.
Post(t, url, json, where) ==
    /\ sessions' = [sessions EXCEPT ![t] = @ + 1]
    /\ sent' = [sent EXCEPT ![t] = Append(@, Request(url, json))]
    /\ pc' = [pc EXCEPT ![t] = where]

AnswerLeaksOnFailure(t, resp) ==
    /\ recv' = [recv EXCEPT ![t] = Append(@, resp)]
    /\ sessions' = [sessions EXCEPT ![t] = IF resp.kind = "http" THEN @ - 1 ELSE @]

\* The answer arrives and both `async with` blocks are left, on every path.
Answer(t, resp) ==
    /\ recv' = [recv EXCEPT ![t] = Append(@, resp)]
    /\ sessions' = [sessions EXCEPT ![t] = @ - 1]

-----------------------------------------------------------------------------
(* get_quote, called directly *)

GetQuoteCall(t) ==
    \E quote_params \in QuoteParams :
        /\ Call(t, "get_quote", [quote_params |-> quote_params])
        /\ Post(t, QuoteUrl, quote_params, "quote_wait")
        /\ UNCHANGED <<quote, ret, exc, recv, w3calls, w3rets, handed>>

(* assemble_transaction, called directly *)

AssembleCall(t) ==
    \E user_addr \in {PyStr(<<"0", "x", "A">>)}, path_id \in {"p1", "p2"},
       simulate \in SimulateFlags :
        /\ Call(t, "assemble_transaction",
                [user_addr |-> user_addr, path_id |-> path_id, simulate |-> simulate])
        /\ Post(t, AssembleUrl, AssemblePayload(user_addr, path_id, simulate), "assemble_wait")
        /\ UNCHANGED <<quote, ret, exc, recv, w3calls, w3rets, handed>>

-----------------------------------------------------------------------------
(* place_order *)

MissingQuoteParams == <<Exc("ValueError", <<Lit("Order must include 'quote_params'")>>)>>

AssembleArgsSimulateByDefault(order, q) ==
    LET quote_params == order["quote_params"] IN
    IF "userAddr" \notin DOMAIN quote_params.items THEN Raises(KeyError("userAddr"))
    ELSE IF "pathId" \notin DOMAIN q THEN Raises(KeyError("pathId"))
    ELSE Returns(AssemblePayload(quote_params.items["userAddr"], q["pathId"],
                                 Get(order, "simulate", PyBool(TRUE))))

\* The route is read from an attribute of the instance that every invocation writes.
AssembleArgsSharedQuote(order, q) ==
    LET quote_params == order["quote_params"]
        holders == {u \in Tasks : quote[u] # NoValue /\ "pathId" \in DOMAIN quote[u]}
        shared == IF holders # {} THEN quote[CHOOSE u \in holders : TRUE] ELSE q
    IN  IF "userAddr" \notin DOMAIN quote_params.items THEN Raises(KeyError("userAddr"))
        ELSE IF "pathId" \notin DOMAIN shared THEN Raises(KeyError("pathId"))
        ELSE Returns(AssemblePayload(quote_params.items["userAddr"], shared["pathId"],
                                     Get(order, "simulate", PyBool(FALSE))))

\* Lines 106-110: the arguments of the call of assemble_transaction, evaluated
\* left to right; a missing key raises KeyError before anything is sent.
AssembleArgs(order, q) ==
    LET quote_params == order["quote_params"] IN
    IF "userAddr" \notin DOMAIN quote_params.items THEN Raises(KeyError("userAddr"))
    ELSE IF "pathId" \notin DOMAIN q THEN Raises(KeyError("pathId"))
    ELSE Returns(AssemblePayload(quote_params.items["userAddr"], q["pathId"],
                                 Get(order, "simulate", PyBool(FALSE))))

PlaceOrderResultMergesQuote(q, assembled_tx) ==
    [k \in DOMAIN q \cup DOMAIN assembled_tx |->
        IF k \in DOMAIN assembled_tx THEN assembled_tx[k] ELSE q[k]]

\* Line 112: return assembled_tx
PlaceOrderResult(q, assembled_tx) == assembled_tx

\* Lines 98-103: the order is validated and the quote requested.
PlaceOrderCall(t) ==
    \E order \in Orders :
        /\ Call(t, "place_order", [order |-> order])
        /\ LET quote_params == Get(order, "quote_params", None) IN
           IF ~Truthy(quote_params)
           THEN /\ Raise(t, Wrap("Exception in place_order: ", MissingQuoteParams))
                /\ UNCHANGED <<sent, sessions>>
           ELSE /\ Post(t, QuoteUrl, quote_params, "quote_wait")
                /\ UNCHANGED <<ret, exc>>
        /\ UNCHANGED <<quote, recv, w3calls, w3rets, handed>>

QuoteResponseRetries(t) ==
    \E resp \in Responses(QuoteBodies) :
        /\ pc[t] = "quote_wait"
        /\ LET r == GetQuoteResult(resp) IN
           IF op[t] = "get_quote"
           THEN /\ Answer(t, resp)
                /\ IF r.ok THEN Return(t, r.val) ELSE Raise(t, r.exc)
                /\ UNCHANGED <<quote, sent>>
           ELSE IF ~r.ok /\ resp.kind = "transport"
           THEN /\ recv' = [recv EXCEPT ![t] = Append(@, resp)]
                /\ sent' = [sent EXCEPT ![t] = Append(@, sent[t][1])]
                /\ UNCHANGED <<pc, quote, sessions, ret, exc>>
           ELSE IF ~r.ok
           THEN /\ Answer(t, resp)
                /\ Raise(t, Wrap("Exception in place_order: ", r.exc))
                /\ UNCHANGED <<quote, sent>>
           ELSE LET a == AssembleArgs(args[t].order, r.val) IN
                /\ recv' = [recv EXCEPT ![t] = Append(@, resp)]
                /\ quote' = [quote EXCEPT ![t] = r.val]
                /\ IF a.ok
                   THEN \* get_quote's session is closed, assemble_transaction's opened
                        /\ sent' = [sent EXCEPT ![t] = Append(@, Request(AssembleUrl, a.val))]
                        /\ pc' = [pc EXCEPT ![t] = "assemble_wait"]
                        /\ UNCHANGED <<sessions, ret, exc>>
                   ELSE /\ sessions' = [sessions EXCEPT ![t] = @ - 1]
                        /\ Raise(t, Wrap("Exception in place_order: ", a.exc))
                        /\ UNCHANGED sent
        /\ UNCHANGED <<op, args, given, w3calls, w3rets, handed, started>>

\* The quoting endpoint answers. get_quote returns or raises; in place_order
\* (lines 103-110) the quote is kept and the assembly requested.
QuoteResponse(t) ==
    \E resp \in Responses(QuoteBodies) :
        /\ pc[t] = "quote_wait"
        /\ LET r == GetQuoteResult(resp) IN
           IF op[t] = "get_quote"
           THEN /\ Answer(t, resp)
                /\ IF r.ok THEN Return(t, r.val) ELSE Raise(t, r.exc)
                /\ UNCHANGED <<quote, sent>>
           ELSE IF ~r.ok
           THEN /\ Answer(t, resp)
                /\ Raise(t, Wrap("Exception in place_order: ", r.exc))
                /\ UNCHANGED <<quote, sent>>
           ELSE LET a == AssembleArgs(args[t].order, r.val) IN
                /\ recv' = [recv EXCEPT ![t] = Append(@, resp)]
                /\ quote' = [quote EXCEPT ![t] = r.val]
                /\ IF a.ok
                   THEN \* get_quote's session is closed, assemble_transaction's opened
                        /\ sent' = [sent EXCEPT ![t] = Append(@, Request(AssembleUrl, a.val))]
                        /\ pc' = [pc EXCEPT ![t] = "assemble_wait"]
                        /\ UNCHANGED <<sessions, ret, exc>>
                   ELSE /\ sessions' = [sessions EXCEPT ![t] = @ - 1]
                        /\ Raise(t, Wrap("Exception in place_order: ", a.exc))
                        /\ UNCHANGED sent
        /\ UNCHANGED <<op, args, given, w3calls, w3rets, handed, started>>

\* The assembly endpoint answers (lines 70-77, 111-115).
AssembleResponse(t) ==
    \E resp \in Responses(AssemblyBodies) :
        /\ pc[t] = "assemble_wait"
        /\ Answer(t, resp)
        /\ LET r == AssembleResult(resp) IN
           IF op[t] = "assemble_transaction"
           THEN IF r.ok THEN Return(t, r.val) ELSE Raise(t, r.exc)
           ELSE IF r.ok THEN Return(t, PlaceOrderResult(quote[t], r.val))
                ELSE Raise(t, Wrap("Exception in place_order: ", r.exc))
        /\ handed' = (handed \/ (op[t] = "place_order" /\ AssembleResult(resp).ok))
        /\ UNCHANGED <<op, args, given, quote, sent, w3calls, w3rets, started>>

-----------------------------------------------------------------------------
(* submit_to_chain *)

SignTransaction(transaction, private_key) ==
    [fn |-> "sign_transaction", transaction |-> transaction, private_key |-> private_key]
SendRawTransaction(raw) == [fn |-> "send_raw_transaction", raw |-> raw]

\* signed_tx.rawTransaction: the transaction as it was signed, and by which key.
RawTransaction(call) == [signed |-> call.transaction, by |-> call.private_key]

SignerFailure == <<Exc("TypeError", <<Lit("Transaction had invalid fields")>>)>>
BroadcastFailure == <<Exc("ValueError", <<Lit("insufficient funds for gas * price + value")>>)>>

CoerceValueSkipped(transaction) ==
    IF "value" \notin DOMAIN transaction THEN Raises(KeyError("value"))
    ELSE Returns(transaction["value"])

\* Line 137: the right-hand side of transaction["value"] = int(transaction["value"])
CoerceValue(transaction) ==
    IF "value" \notin DOMAIN transaction THEN Raises(KeyError("value"))
    ELSE IntOf(transaction["value"])

\* The mapping is replaced by one that holds the item alone.
SetItemOnly(items, key, v) == [k \in {key} |-> v]

\* Line 137: the assignment; a key that is not there yet is added.
SetItem(items, key, v) ==
    [k \in DOMAIN items \cup {key} |-> IF k = key THEN v ELSE items[k]]

\* Lines 135-138: the value is coerced in the caller's own mapping, and the
\* signer is called with that mapping.
SubmitCall(t) ==
    \E transaction \in Transactions, private_key \in PrivateKeys :
        /\ pc[t] = "idle"
        /\ started < MaxOps
        /\ started' = started + 1
        /\ op' = [op EXCEPT ![t] = "submit_to_chain"]
        /\ given' = [given EXCEPT ![t] =
                        [transaction |-> transaction, private_key |-> private_key]]
        /\ LET v == CoerceValue(transaction) IN
           IF v.ok
           THEN LET coerced == SetItem(transaction, "value", v.val) IN
                /\ args' = [args EXCEPT ![t] =
                               [transaction |-> coerced, private_key |-> private_key]]
                /\ w3calls' = [w3calls EXCEPT ![t] =
                                  Append(@, SignTransaction(coerced, private_key))]
                /\ pc' = [pc EXCEPT ![t] = "sign_wait"]
                /\ UNCHANGED <<ret, exc>>
           ELSE /\ args' = [args EXCEPT ![t] =
                               [transaction |-> transaction, private_key |-> private_key]]
                /\ Raise(t, Wrap("Exception in submit_to_chain: ", v.exc))
                /\ UNCHANGED w3calls
        /\ UNCHANGED <<quote, sent, recv, sessions, w3rets, handed>>

SignerResponseBroadcastsAnyway(t) ==
    \E signs \in BOOLEAN :
        /\ pc[t] = "sign_wait"
        /\ LET call == w3calls[t][Len(w3calls[t])] IN
           IF signs
           THEN /\ w3rets' = [w3rets EXCEPT ![t] = Append(@, Returns(RawTransaction(call)))]
                /\ w3calls' = [w3calls EXCEPT ![t] =
                                  Append(@, SendRawTransaction(RawTransaction(call)))]
                /\ pc' = [pc EXCEPT ![t] = "send_wait"]
                /\ UNCHANGED <<ret, exc>>
           ELSE /\ w3rets' = [w3rets EXCEPT ![t] = Append(@, Raises(SignerFailure))]
                /\ w3calls' = [w3calls EXCEPT ![t] =
                                  Append(@, SendRawTransaction(RawTransaction(call)))]
                /\ pc' = [pc EXCEPT ![t] = "send_wait"]
                /\ UNCHANGED <<ret, exc>>
        /\ UNCHANGED <<op, args, given, quote, sent, recv, sessions, handed, started>>

\* Lines 138-139: the signer returns or raises; what it signed is broadcast.
SignerResponse(t) ==
    \E signs \in BOOLEAN :
        /\ pc[t] = "sign_wait"
        /\ LET call == w3calls[t][Len(w3calls[t])] IN
           IF signs
           THEN /\ w3rets' = [w3rets EXCEPT ![t] = Append(@, Returns(RawTransaction(call)))]
                /\ w3calls' = [w3calls EXCEPT ![t] =
                                  Append(@, SendRawTransaction(RawTransaction(call)))]
                /\ pc' = [pc EXCEPT ![t] = "send_wait"]
                /\ UNCHANGED <<ret, exc>>
           ELSE /\ w3rets' = [w3rets EXCEPT ![t] = Append(@, Raises(SignerFailure))]
                /\ Raise(t, Wrap("Exception in submit_to_chain: ", SignerFailure))
                /\ UNCHANGED w3calls
        /\ UNCHANGED <<op, args, given, quote, sent, recv, sessions, handed, started>>

\* Lines 139-143: the network client returns the hash or raises.
BroadcastResponse(t) ==
    \E answer \in {Returns(h) : h \in TxHashes} \cup {Raises(BroadcastFailure)} :
        /\ pc[t] = "send_wait"
        /\ w3rets' = [w3rets EXCEPT ![t] = Append(@, answer)]
        /\ IF answer.ok
           THEN Return(t, HashString(answer.val))
           ELSE Raise(t, Wrap("Exception in submit_to_chain: ", answer.exc))
        /\ UNCHANGED <<op, args, given, quote, sent, recv, sessions, w3calls, handed, started>>

-----------------------------------------------------------------------------
(* cancel_order *)

CancelResultRaises(order_id) ==
    Raises(<<Exc("NotImplementedError", <<Lit("Cancel order is not available")>>)>>)

CancelResultSucceeds(order_id) == Returns(PyBool(TRUE))

\* Lines 146-148
CancelResult(order_id) == Returns(PyBool(FALSE))

CancelOrder(t) ==
    \E order_id \in OrderIds :
        /\ Call(t, "cancel_order", [order_id |-> order_id])
        /\ LET r == CancelResult(order_id) IN
           IF r.ok THEN Return(t, r.val)
           ELSE Raise(t, Wrap("Exception in cancel_order: ", r.exc))
        /\ UNCHANGED <<quote, sent, recv, sessions, w3calls, w3rets, handed>>

\* The caller has its result; the frame is gone and the task is free to call again.
Finish(t) ==
    /\ pc[t] \in {"returned", "raised"}
    /\ op' = [op EXCEPT ![t] = "none"]
    /\ pc' = [pc EXCEPT ![t] = "idle"]
    /\ args' = [args EXCEPT ![t] = EmptyDict]
    /\ given' = [given EXCEPT ![t] = EmptyDict]
    /\ quote' = [quote EXCEPT ![t] = NoValue]
    /\ ret' = [ret EXCEPT ![t] = NoValue]
    /\ exc' = [exc EXCEPT ![t] = NoExc]
    /\ sent' = [sent EXCEPT ![t] = << >>]
    /\ recv' = [recv EXCEPT ![t] = << >>]
    /\ w3calls' = [w3calls EXCEPT ![t] = << >>]
    /\ w3rets' = [w3rets EXCEPT ![t] = << >>]
    /\ UNCHANGED <<sessions, handed, started>>

Next ==
    \E t \in Tasks :
        \/ GetQuoteCall(t)
        \/ AssembleCall(t)
        \/ PlaceOrderCall(t)
        \/ QuoteResponse(t)
        \/ AssembleResponse(t)
        \/ SubmitCall(t)
        \/ SignerResponse(t)
        \/ BroadcastResponse(t)
        \/ CancelOrder(t)
        \/ Finish(t)

Spec == Init /\ [][Next]_vars

-----------------------------------------------------------------------------
(* The vocabulary of the claims *)

Ended(t) == pc[t] \in {"returned", "raised"}

\* A response with a status and a body that parses as JSON.
Parsed(resp) == resp.kind = "http" /\ resp.json_ok
Answered200(resp) == Parsed(resp) /\ resp.status = 200
AnsweredNot200(resp) == resp.kind = "http" /\ resp.status # 200

RequestsTo(t, url) == {i \in 1..Len(sent[t]) : sent[t][i].url = url}

Tokens(e) == {e.msg[i] : i \in 1..Len(e.msg)}

\* The error kinds of the specification, as the code realises them: the
\* class of the exception, and the text its raising function puts in front.
RaisedBy(e, prefix) == e.type = "Exception" /\ e.msg # << >> /\ Head(e.msg) = Lit(prefix)
IsValidationError(e) == e.type = "ValueError"
IsOrderError(e) == RaisedBy(e, "Exception in place_order: ")
IsQuoteError(e) == RaisedBy(e, "Exception in get_quote: ")
IsAssemblyError(e) == RaisedBy(e, "Exception in assemble_transaction: ")

LacksQuoteRequest(t) ==
    op[t] = "place_order" /\ "quote_params" \notin DOMAIN given[t].order

-----------------------------------------------------------------------------
(* The claims *)

\* C1: for every Order without a 'quote_params' entry, place_order fails with
\* ValidationError (the ValueError its docstring announces), having issued no
\* request to the quoting endpoint and none to the assembly endpoint.
C1_FailsWithValidationError ==
    \A t \in Tasks :
        LacksQuoteRequest(t) =>
            /\ pc[t] = "raised"
            /\ IsValidationError(Head(exc[t]))
            /\ RequestsTo(t, QuoteUrl) = {}
            /\ RequestsTo(t, AssembleUrl) = {}

\* C2: when the quoting endpoint and the assembly endpoint both answer 200
\* within one place_order invocation, place_order returns exactly the body of
\* the assembly response.
C2_ReturnsAssemblyBody ==
    \A t \in Tasks :
        (/\ op[t] = "place_order"
         /\ Len(recv[t]) = 2
         /\ Answered200(recv[t][1])
         /\ Answered200(recv[t][2]))
        => /\ pc[t] = "returned"
           /\ ret[t] = recv[t][2].body
           /\ exc[t] = NoExc

C2_Witness ==
    \E t \in Tasks :
        /\ op[t] = "place_order"
        /\ Len(recv[t]) = 2
        /\ Answered200(recv[t][1])
        /\ Answered200(recv[t][2])
        /\ pc[t] = "returned"
        /\ recv[t][2].body # recv[t][1].body

\* C3: the assembly request of a place_order invocation carries the pathId of
\* the Quote that invocation obtained and the userAddr of its own Order's
\* QuoteRequest, both unchanged.
C3_AssemblyRequestCarriesOwnRoute ==
    \A t \in Tasks :
        (op[t] = "place_order" /\ RequestsTo(t, AssembleUrl) # {})
        => /\ RequestsTo(t, AssembleUrl) = {2}
           /\ Answered200(recv[t][1])
           /\ sent[t][2].json.pathId = recv[t][1].body.pathId
           /\ sent[t][2].json.userAddr = given[t].order.quote_params.items.userAddr

\* Two invocations in flight with different routes and different users.
C3_Witness ==
    \E t, u \in Tasks :
        /\ op[t] = "place_order" /\ op[u] = "place_order"
        /\ RequestsTo(t, AssembleUrl) # {} /\ RequestsTo(u, AssembleUrl) # {}
        /\ sent[t][2].json.pathId # sent[u][2].json.pathId
        /\ sent[t][2].json.userAddr # sent[u][2].json.userAddr

\* C4: the simulate flag of the assembly request is the Order's simulate flag
\* when the Order has one, and false when it has none.
C4_SimulateFlag ==
    \A t \in Tasks :
        (op[t] = "place_order" /\ RequestsTo(t, AssembleUrl) # {})
        => \A i \in RequestsTo(t, AssembleUrl) :
               sent[t][i].json.simulate =
                   IF "simulate" \in DOMAIN given[t].order
                   THEN given[t].order.simulate
                   ELSE PyBool(FALSE)

C4_Witness ==
    \E t, u \in Tasks :
        /\ op[t] = "place_order" /\ op[u] = "place_order"
        /\ RequestsTo(t, AssembleUrl) # {} /\ RequestsTo(u, AssembleUrl) # {}
        /\ "simulate" \notin DOMAIN given[t].order
        /\ "simulate" \in DOMAIN given[u].order
        /\ given[u].order.simulate = PyBool(TRUE)

\* C5: when the quote stage succeeds and the assembly stage fails, place_order
\* raises OrderError wrapping an AssemblyError and returns nothing: neither
\* the quote nor a transaction.
C5_AssemblyFailureDiscardsQuote ==
    \A t \in Tasks :
        (/\ op[t] = "place_order"
         /\ Len(recv[t]) = 2
         /\ ~Answered200(recv[t][2]))
        => /\ pc[t] = "raised"
           /\ ret[t] = NoValue
           /\ Len(exc[t]) >= 2
           /\ IsOrderError(exc[t][1])
           /\ IsAssemblyError(exc[t][2])
           /\ exc[t][1].msg = <<Lit("Exception in place_order: ")>> \o exc[t][2].msg

C5_Witness ==
    \E t \in Tasks :
        /\ op[t] = "place_order"
        /\ Len(recv[t]) = 2
        /\ AnsweredNot200(recv[t][2]) /\ Parsed(recv[t][2])
        /\ quote[t] # NoValue
        /\ pc[t] = "raised"

\* The stage a place_order invocation failed in, if it failed in one.
FailedStage(t) ==
    IF Len(recv[t]) = 1 /\ ~Answered200(recv[t][1]) THEN "get_quote"
    ELSE IF Len(recv[t]) = 2 /\ ~Answered200(recv[t][2]) THEN "assemble_transaction"
    ELSE "none"

\* C6: every failure of place_order caused by the quote stage or the assembly
\* stage reaches the caller as an OrderError that names the stage and keeps
\* the original cause: the remote error payload, or the network-level failure.
C6_OneErrorKindNamingStage ==
    \A t \in Tasks :
        (op[t] = "place_order" /\ FailedStage(t) # "none")
        => LET resp == recv[t][Len(recv[t])]
               stage == <<"Exception in ", FailedStage(t), ": ">>
           IN  /\ pc[t] = "raised"
               /\ IsOrderError(exc[t][1])
               /\ Len(exc[t][1].msg) >= 2
               /\ Len(exc[t]) >= 2
               /\ exc[t][1].msg[2] \in {Lit("Exception in get_quote: "),
                                        Lit("Exception in assemble_transaction: ")}
               /\ (exc[t][1].msg[2] = Lit("Exception in get_quote: ")) = (FailedStage(t) = "get_quote")
               /\ RaisedBy(exc[t][2], exc[t][1].msg[2].lit)
               /\ Parsed(resp) => Repr(resp.body) \in Tokens(exc[t][1])
               /\ resp.kind = "transport" =>
                      /\ exc[t][Len(exc[t])] = Head(ClientError)
                      /\ Tokens(Head(ClientError)) \subseteq Tokens(exc[t][1])
               /\ (resp.kind = "http" /\ ~resp.json_ok) =>
                      /\ exc[t][Len(exc[t])] = Head(DecodeError)
                      /\ Tokens(Head(DecodeError)) \subseteq Tokens(exc[t][1])

\* One invocation failed in the quote stage, the other in the assembly stage.
C6_Witness ==
    \E t, u \in Tasks :
        /\ op[t] = "place_order" /\ op[u] = "place_order"
        /\ FailedStage(t) = "get_quote" /\ recv[t][1].kind = "transport"
        /\ FailedStage(u) = "assemble_transaction" /\ Parsed(recv[u][2])
        /\ pc[t] = "raised" /\ pc[u] = "raised"

\* C7: get_quote returns the parsed body when the quoting endpoint answers
\* 200, and for any other status it raises a QuoteError that contains the
\* error body; it never returns a value for a non-200 response.
C7_GetQuoteByStatus ==
    \A t \in Tasks :
        (op[t] = "get_quote" /\ Len(recv[t]) = 1)
        => LET resp == recv[t][1] IN
           /\ Answered200(resp) => pc[t] = "returned" /\ ret[t] = resp.body
           /\ AnsweredNot200(resp) =>
                  /\ pc[t] = "raised"
                  /\ ret[t] = NoValue
                  /\ IsQuoteError(exc[t][1])
           /\ (AnsweredNot200(resp) /\ Parsed(resp)) =>
                  Repr(resp.body) \in Tokens(exc[t][1])

C7_Witness ==
    \E t, u \in Tasks :
        /\ op[t] = "get_quote" /\ op[u] = "get_quote"
        /\ Len(recv[t]) = 1 /\ Answered200(recv[t][1])
        /\ Len(recv[u]) = 1 /\ AnsweredNot200(recv[u][1]) /\ Parsed(recv[u][1])
        /\ "pathId" \in DOMAIN recv[u][1].body

\* C8: cancel_order returns false for every order identifier, never raises
\* and issues no request, in every state.
C8_CancelReturnsFalse ==
    \A t \in Tasks :
        op[t] = "cancel_order"
        => /\ pc[t] = "returned"
           /\ ret[t] = PyBool(FALSE)
           /\ exc[t] = NoExc
           /\ sent[t] = << >>
           /\ w3calls[t] = << >>
           /\ sessions[t] = 0

\* A cancellation after earlier calls, while another invocation is in flight.
C8_Witness ==
    \E t, u \in Tasks :
        /\ op[t] = "cancel_order" /\ given[t].order_id # ""
        /\ started = MaxOps
        /\ pc[u] \in {"assemble_wait", "send_wait"}

\* The number a decimal string denotes: the sum of its digits, each times the
\* power of ten of its place, negated after a minus sign.
RECURSIVE PowerOfTen(_)
PowerOfTen(n) == IF n = 0 THEN 1 ELSE 10 * PowerOfTen(n - 1)

RECURSIVE PlaceSum(_, _)
PlaceSum(ds, i) ==
    IF i > Len(ds) THEN 0
    ELSE DigitValue(ds[i]) * PowerOfTen(Len(ds) - i) + PlaceSum(ds, i + 1)

NumericValue(v) ==
    IF v.tag = "int" THEN v.val
    ELSE LET sign == IF \E i \in 1..Len(v.val) : v.val[i] = "-" THEN -1 ELSE 1
         IN  sign * PlaceSum(SelectSeq(v.val, IsDigit), 1)

SignerCalls(t) == {i \in 1..Len(w3calls[t]) : w3calls[t][i].fn = "sign_transaction"}

\* C9: whenever the signer is invoked, the transaction it receives has an
\* integer value equal to the numeric value of the original field, and never
\* a string.
C9_ValueCoercedBeforeSigning ==
    \A t \in Tasks :
        \A i \in SignerCalls(t) :
            LET v == w3calls[t][i].transaction["value"] IN
            /\ v.tag = "int"
            /\ v.val = NumericValue(given[t].transaction["value"])

\* The string "1000" reached the signer as the integer 1000.
C9_Witness ==
    \E t \in Tasks :
        /\ SignerCalls(t) # {}
        /\ given[t].transaction["value"] = PyStr(<<"1", "0", "0", "0">>)
        /\ w3calls[t][1].transaction["value"] = PyInt(1000)

\* Hexadecimal strings, read back
IsLowerHexDigit(c) == \E i \in 1..Len(HexDigits) : HexDigits[i] = c
HexValue(c) == (CHOOSE i \in 1..Len(HexDigits) : HexDigits[i] = c) - 1
Unprefixed(str) ==
    IF Len(str) >= 2 /\ SubSeq(str, 1, 2) = <<"0", "x">> THEN SubSeq(str, 3, Len(str)) ELSE str
IsLowerHex(str) == \A i \in 1..Len(Unprefixed(str)) : IsLowerHexDigit(Unprefixed(str)[i])
Octets(str) ==
    LET h == Unprefixed(str) IN
    [i \in 1..(Len(h) \div 2) |-> 16 * HexValue(h[2 * i - 1]) + HexValue(h[2 * i])]

\* What the network client handed back to a submit that returned.
Submitted(t) == op[t] = "submit_to_chain" /\ pc[t] = "returned"
ClientHash(t) == w3rets[t][2].val

LowerCase(c) ==
    CASE c = "A" -> "a" [] c = "B" -> "b" [] c = "C" -> "c"
      [] c = "D" -> "d" [] c = "E" -> "e" [] c = "F" -> "f" [] OTHER -> c
\* The octets a hash stands for, whichever way the client represents it.
HashOctets(h) ==
    IF h.tag = "bytes" THEN h.val
    ELSE Octets([i \in 1..Len(h.val) |-> LowerCase(h.val[i])])

\* C10, as claimed: a successful submit returns a lowercase hexadecimal
\* string, the same one for the bytes and for the string form of one hash.
C10_OneCanonicalLowercaseHex ==
    \A t, u \in Tasks :
        Submitted(t) =>
            /\ ret[t].tag = "str"
            /\ IsLowerHex(ret[t].val)
            /\ (Submitted(u) /\ HashOctets(ClientHash(t)) = HashOctets(ClientHash(u)))
                   => ret[t] = ret[u]

\* C10, amended: a successful submit returns a string; bytes come back as
\* their lowercase hexadecimal encoding, a string comes back as it is.
C10_HashAsString ==
    \A t \in Tasks :
        Submitted(t) =>
            /\ ret[t].tag = "str"
            /\ ClientHash(t).tag = "bytes" =>
                   /\ IsLowerHex(ret[t].val)
                   /\ Octets(ret[t].val) = ClientHash(t).val
                   /\ Len(Unprefixed(ret[t].val)) = 2 * Len(ClientHash(t).val)
            /\ ClientHash(t).tag = "str" => ret[t] = ClientHash(t)

\* One hash, handed back as bytes to one submit and as a string to the other.
C10_Witness ==
    \E t, u \in Tasks :
        /\ Submitted(t) /\ Submitted(u)
        /\ ClientHash(t).tag = "bytes" /\ ClientHash(u).tag = "str"
        /\ HashOctets(ClientHash(t)) = HashOctets(ClientHash(u))
        /\ ret[t] # ret[u]

-----------------------------------------------------------------------------
(* The claims on retries, the lifecycle, sessions and independence *)

\* C11: no retries: a place_order invocation sends at most one request to the
\* quoting endpoint and at most one to the assembly endpoint; once a stage has
\* failed the invocation has raised, with no request beyond the one that
\* failed.
C11_NoRetries ==
    \A t \in Tasks :
        op[t] = "place_order" =>
            /\ Cardinality(RequestsTo(t, QuoteUrl)) <= 1
            /\ Cardinality(RequestsTo(t, AssembleUrl)) <= 1
            /\ Len(recv[t]) <= Len(sent[t])
            /\ (\E i \in 1..Len(recv[t]) : ~Answered200(recv[t][i])) =>
                   /\ pc[t] = "raised"
                   /\ exc[t] # NoExc
                   /\ Len(sent[t]) = Len(recv[t])
                   /\ \A i \in 1..(Len(recv[t]) - 1) : Answered200(recv[t][i])

\* One invocation failed at its only quote request, the other at its only
\* assembly request.
C11_Witness ==
    \E t, u \in Tasks :
        /\ op[t] = "place_order" /\ op[u] = "place_order"
        /\ Len(sent[t]) = 1 /\ Len(recv[t]) = 1 /\ recv[t][1].kind = "transport"
        /\ Len(sent[u]) = 2 /\ Len(recv[u]) = 2 /\ recv[u][2].kind = "transport"
        /\ pc[t] = "raised" /\ pc[u] = "raised"

\* Where an order stands, read off the invocation that is working on it.
StageOf(o, p, r) ==
    CASE o = "place_order" /\ p = "quote_wait" -> "Requested"
      [] o = "place_order" /\ p = "assemble_wait" -> "Quoted"
      [] o = "place_order" /\ p = "returned" -> "Assembled"
      [] o = "submit_to_chain" /\ p \in {"sign_wait", "send_wait"} -> "Assembled"
      [] o = "submit_to_chain" /\ p = "returned" -> "Submitted"
      [] o \in {"place_order", "submit_to_chain"} /\ p = "raised" -> "Failed"
      [] o = "cancel_order" /\ p = "returned" /\ r = PyBool(TRUE) -> "Cancelled"
      [] OTHER -> "None"

Stage(t) == StageOf(op[t], pc[t], ret[t])

LifecycleSteps ==
    { <<"None", "Requested">>, <<"Requested", "Quoted">>, <<"Quoted", "Assembled">>,
      <<"None", "Assembled">>, <<"Assembled", "Submitted">>,
      <<"None", "Failed">>, <<"Requested", "Failed">>, <<"Quoted", "Failed">>,
      <<"Assembled", "Failed">>,
      <<"Assembled", "None">>, <<"Submitted", "None">>, <<"Failed", "None">> }

\* What has been sent and answered at each stage of place_order.
StageMatchesTraffic(t) ==
    op[t] = "place_order" =>
        /\ Stage(t) = "Requested" =>
               Len(sent[t]) = 1 /\ recv[t] = << >> /\ sent[t][1].url = QuoteUrl
        /\ Stage(t) \in {"Quoted", "Assembled"} =>
               /\ Len(sent[t]) = 2 /\ sent[t][1].url = QuoteUrl /\ sent[t][2].url = AssembleUrl
               /\ Len(recv[t]) >= 1 /\ Answered200(recv[t][1])
        /\ Stage(t) = "Quoted" => Len(recv[t]) = 1
        /\ Stage(t) = "Assembled" => Len(recv[t]) = 2 /\ Answered200(recv[t][2])
        /\ RequestsTo(t, AssembleUrl) # {} => Len(recv[t]) >= 1 /\ Answered200(recv[t][1])

\* C12, as claimed: Requested -> Quoted -> Assembled -> (Submitted | Failed)
\* and nothing else; in particular submit works only on a transaction that
\* place_order has assembled, and Cancelled is never reached.
C12_LifecycleAndNothingElse ==
    \A t \in Tasks :
        /\ StageMatchesTraffic(t)
        /\ Stage(t) # "Cancelled"
        /\ op[t] = "submit_to_chain" => handed

\* C12, amended: inside place_order the stages follow Requested -> Quoted ->
\* Assembled, none skipped or repeated, and a failure at any stage ends in
\* Failed; submit takes whatever transaction the caller hands it, assembled
\* by place_order or not, to Submitted or Failed; Cancelled is never reached.
C12_Lifecycle ==
    /\ [](\A t \in Tasks : StageMatchesTraffic(t) /\ Stage(t) # "Cancelled")
    /\ [][\A t \in Tasks :
             LET before == Stage(t)
                 after == StageOf(op'[t], pc'[t], ret'[t])
             IN  before # after => <<before, after>> \in LifecycleSteps]_vars

\* An order assembled by one invocation while a submit has gone through.
C12_Witness ==
    \E t, u \in Tasks :
        /\ Stage(t) = "Assembled" /\ op[t] = "place_order"
        /\ Stage(u) = "Submitted"
        /\ handed

\* C13: every session get_quote or assemble_transaction opens is released on
\* every exit path: a session is open only while its request is awaited, and
\* an invocation that has returned or raised, however it ended, holds none.
C13_SessionsReleased ==
    \A t \in Tasks :
        /\ sessions[t] \in {0, 1}
        /\ sessions[t] = 1 <=> pc[t] \in {"quote_wait", "assemble_wait"}

\* A transport failure in get_quote and an undecodable body in
\* assemble_transaction, both behind the callers, and no session left.
C13_Witness ==
    \E t, u \in Tasks :
        /\ op[t] = "get_quote" /\ pc[t] = "raised" /\ recv[t][1].kind = "transport"
        /\ op[u] = "place_order" /\ pc[u] = "raised" /\ Len(recv[u]) = 2
        /\ recv[u][2].kind = "http" /\ ~recv[u][2].json_ok
        /\ sessions[t] = 0 /\ sessions[u] = 0

\* The requests a place_order invocation issues, from its own Order and the
\* answers to its own requests.
OwnQuoteRequest(t) == Request(QuoteUrl, given[t].order["quote_params"])
OwnAssembleRequest(t) ==
    Request(AssembleUrl,
            [userAddr |-> given[t].order["quote_params"].items["userAddr"],
             pathId |-> recv[t][1].body["pathId"],
             simulate |-> IF "simulate" \in DOMAIN given[t].order
                          THEN given[t].order["simulate"] ELSE PyBool(FALSE)])

OwnRequests(t) ==
    /\ Len(sent[t]) <= 2
    /\ Len(sent[t]) >= 1 => sent[t][1] = OwnQuoteRequest(t)
    /\ Len(sent[t]) = 2 => Len(recv[t]) >= 1 /\ sent[t][2] = OwnAssembleRequest(t)

\* C14: concurrent place_order invocations share nothing: under every
\* interleaving the requests and the result of each are those its own Order
\* and the answers to its own requests determine, and a task that is between
\* invocations finds no quote or transaction kept.
C14_InvocationsIndependent ==
    \A t \in Tasks :
        /\ op[t] = "place_order" =>
               /\ OwnRequests(t)
               /\ pc[t] = "returned" => Len(recv[t]) = 2 /\ ret[t] = recv[t][2].body
               /\ \A u \in Tasks :
                      (/\ op[u] = "place_order"
                       /\ given[u] = given[t]
                       /\ recv[u] = recv[t]
                       /\ Len(sent[u]) = Len(sent[t]))
                      => /\ sent[u] = sent[t]
                         /\ pc[u] = pc[t]
                         /\ ret[u] = ret[t]
                         /\ exc[u] = exc[t]
        /\ op[t] = "none" =>
               /\ quote[t] = NoValue /\ ret[t] = NoValue
               /\ sent[t] = << >> /\ recv[t] = << >>

\* Two invocations interleaved: the second got its quote while the first was
\* between its quote and its result, with another route and another user.
C14_Witness ==
    \E t, u \in Tasks :
        /\ op[t] = "place_order" /\ op[u] = "place_order"
        /\ pc[t] = "returned" /\ pc[u] = "assemble_wait"
        /\ quote[t] # quote[u]
        /\ sent[t][2].json.userAddr # sent[u][2].json.userAddr

-----------------------------------------------------------------------------
(* The claims on key material, validation, submit and the caller's objects *)

\* The requests an invocation issues, from its own arguments and answers.
ExpectedRequests(t) ==
    CASE op[t] = "place_order" -> OwnRequests(t)
      [] op[t] = "get_quote" ->
            sent[t] = <<Request(QuoteUrl, given[t].quote_params)>>
      [] op[t] = "assemble_transaction" ->
            sent[t] = <<Request(AssembleUrl,
                                [userAddr |-> given[t].user_addr,
                                 pathId |-> given[t].path_id,
                                 simulate |-> given[t].simulate])>>
      [] OTHER -> sent[t] = << >>

\* C15: the private key is an argument of submit only, submit issues no HTTP
\* request, and every request of get_quote, assemble_transaction and
\* place_order is what the invocation's own arguments and answers make it,
\* whatever key a submit beside it or before it was given.
C15_KeyConfinedToSubmit ==
    \A t \in Tasks :
        /\ ("private_key" \in DOMAIN args[t]) <=> (op[t] = "submit_to_chain")
        /\ ("private_key" \in DOMAIN given[t]) <=> (op[t] = "submit_to_chain")
        /\ ExpectedRequests(t)
        /\ \A i \in 1..Len(sent[t]) :
               /\ DOMAIN sent[t][i] = {"url", "json"}
               /\ sent[t][i].url = AssembleUrl =>
                      DOMAIN sent[t][i].json = {"userAddr", "pathId", "simulate"}

\* An assembly request goes out while a submit holds a key.
C15_Witness ==
    \E t, u \in Tasks :
        /\ op[t] = "place_order" /\ Len(sent[t]) = 2
        /\ op[u] = "submit_to_chain" /\ pc[u] = "send_wait"
        /\ args[u].private_key = "k2"

\* C16: for an Order whose QuoteRequest is there but has no user address,
\* place_order fails with ValidationError without a request to either
\* endpoint.
C16_MissingAddressFailsBeforeNetwork ==
    \A t \in Tasks :
        (/\ op[t] = "place_order"
         /\ "quote_params" \in DOMAIN given[t].order
         /\ Truthy(given[t].order["quote_params"])
         /\ "userAddr" \notin DOMAIN given[t].order["quote_params"].items)
        => /\ sent[t] = << >>
           /\ pc[t] = "raised"
           /\ IsValidationError(Head(exc[t]))

IsSubmitError(e) == RaisedBy(e, "Exception in submit_to_chain: ")
FailedCalls(t) == {i \in 1..Len(w3rets[t]) : ~w3rets[t][i].ok}

\* C17: a failure of the signer or of the broadcast is wrapped into a
\* SubmitError and no hash is returned; the signer is called only with the
\* coerced value, the broadcast only with what a successful signing returned.
C17_SubmitFailuresWrapped ==
    \A t \in Tasks :
        op[t] = "submit_to_chain" =>
            /\ Len(w3calls[t]) <= 2 /\ Len(w3rets[t]) <= Len(w3calls[t])
            /\ Len(w3calls[t]) >= 1 =>
                   /\ w3calls[t][1].fn = "sign_transaction"
                   /\ w3calls[t][1].transaction["value"].tag = "int"
            /\ Len(w3calls[t]) = 2 =>
                   /\ w3calls[t][2].fn = "send_raw_transaction"
                   /\ Len(w3rets[t]) >= 1 /\ w3rets[t][1].ok
                   /\ w3calls[t][2].raw = w3rets[t][1].val
            /\ \A i \in FailedCalls(t) :
                   /\ pc[t] = "raised"
                   /\ ret[t] = NoValue
                   /\ Len(w3calls[t]) = i
                   /\ Len(exc[t]) >= 2
                   /\ IsSubmitError(exc[t][1])
                   /\ SubSeq(exc[t], 2, Len(exc[t])) = w3rets[t][i].exc
                   /\ exc[t][1].msg = <<Lit("Exception in submit_to_chain: ")>> \o exc[t][2].msg

\* One submit failed at signing, the other at broadcast.
C17_Witness ==
    \E t, u \in Tasks :
        /\ op[t] = "submit_to_chain" /\ FailedCalls(t) = {1} /\ pc[t] = "raised"
        /\ op[u] = "submit_to_chain" /\ FailedCalls(u) = {2} /\ pc[u] = "raised"

\* C18: on every path of place_order, the Order and the QuoteRequest in it
\* are what the caller passed in, and the QuoteRequest that went out is
\* that same mapping.
C18_OrderNotMutated ==
    \A t \in Tasks :
        op[t] = "place_order" =>
            /\ DOMAIN args[t] = {"order"}
            /\ DOMAIN args[t].order = DOMAIN given[t].order
            /\ \A k \in DOMAIN given[t].order : args[t].order[k] = given[t].order[k]
            /\ args[t] = given[t]
            /\ \A i \in RequestsTo(t, QuoteUrl) :
                   sent[t][i].json = given[t].order["quote_params"]

\* A place_order given an Order without 'simulate' has returned, another
\* has raised after its quote was refused.
C18_Witness ==
    \E t, u \in Tasks :
        /\ op[t] = "place_order" /\ pc[t] = "returned"
        /\ "simulate" \notin DOMAIN given[t].order
        /\ op[u] = "place_order" /\ pc[u] = "raised" /\ Len(recv[u]) = 1

\* C19: submit leaves every field of the caller's transaction other than
\* 'value' as it was; the mapping is untouched when the coercion fails, and
\* keeps the integer once the coercion succeeded, also after a failure of
\* the signer or of the broadcast.
C19_OnlyValueReplaced ==
    \A t \in Tasks :
        op[t] = "submit_to_chain" =>
            LET before == given[t].transaction
                after == args[t].transaction
            IN /\ args[t].private_key = given[t].private_key
               /\ DOMAIN after = DOMAIN before
               /\ \A k \in DOMAIN before \ {"value"} : after[k] = before[k]
               /\ w3calls[t] = << >> => pc[t] = "raised" /\ after = before
               /\ w3calls[t] # << >> =>
                      /\ after["value"].tag = "int"
                      /\ after["value"].val = NumericValue(before["value"])
                      /\ after = w3calls[t][1].transaction

\* The string given as value is an integer in the caller's mapping after the
\* signer failed; another submit failed at the coercion and left its mapping.
C19_Witness ==
    \E t, u \in Tasks :
        /\ op[t] = "submit_to_chain" /\ pc[t] = "raised" /\ FailedCalls(t) = {1}
        /\ given[t].transaction["value"].tag = "str"
        /\ args[t].transaction["value"].tag = "int"
        /\ op[u] = "submit_to_chain" /\ pc[u] = "raised" /\ w3calls[u] = << >>
        /\ "value" \in DOMAIN given[u].transaction

EmptyQuoteParams(order) ==
    /\ "quote_params" \in DOMAIN order
    /\ order["quote_params"] \in {None, PyDict(EmptyDict)}

\* C20: an Order whose 'quote_params' is None or an empty mapping fails as
\* an Order without the entry does: with the missing-quote-parameters error
\* and without a request to either endpoint.
C20_EmptyQuoteParamsAsMissing ==
    \A t \in Tasks :
        (op[t] = "place_order" /\ EmptyQuoteParams(given[t].order)) =>
            /\ pc[t] = "raised"
            /\ ret[t] = NoValue
            /\ sent[t] = << >> /\ recv[t] = << >>
            /\ exc[t] = Wrap("Exception in place_order: ", MissingQuoteParams)
            /\ \A u \in Tasks :
                   (op[u] = "place_order" /\ "quote_params" \notin DOMAIN given[u].order)
                   => /\ exc[u] = exc[t] /\ pc[u] = pc[t]
                      /\ sent[u] = sent[t] /\ ret[u] = ret[t]

\* One Order holds an empty mapping, the other has no entry; both failed alike.
C20_Witness ==
    \E t, u \in Tasks :
        /\ op[t] = "place_order" /\ "quote_params" \in DOMAIN given[t].order
        /\ given[t].order["quote_params"] = PyDict(EmptyDict)
        /\ op[u] = "place_order" /\ "quote_params" \notin DOMAIN given[u].order
        /\ pc[t] = "raised" /\ exc[t] = exc[u]

====
